---- MODULE Spec2Model ----
(***************************************************************************)
(* Model of the file-retention utility: cleanup_files.py (interactive      *)
(* deleter) and generate_cleanup_script.py (script generator).             *)
(*                                                                         *)
(* A Python str is a sequence of one-character strings, so that strip(),   *)
(* startswith(), lower() and pathlib's parsing are computed character by   *)
(* character.  A JSON value is a tagged record:                            *)
(*   [t |-> "str", s |-> chars]   a string                                 *)
(*   [t |-> "num"]                a number, boolean or null                *)
(*   [t |-> "arr", e |-> seq]     an array                                 *)
(*   [t |-> "obj", m |-> fields]  an object, m a function on field names   *)
(***************************************************************************)
EXTENDS Integers, Sequences, FiniteSets, TLC

VARIABLES
    driver,            \* which main() runs: "cleanup", "generate", or "none"
    pc,                \* position inside main()
    manifest,          \* [status, data]: what open()/json.load() of input.json gives
    disk,              \* regular files of the working tree (relative paths)
    disk0,             \* the tree as it was when main() started
    walked,            \* TRUE once rglob('*') has enumerated the tree
    all_files,         \* the snapshot taken by find_files_to_delete
    location_files,
    filename_files,
    file_field_files,
    protected_files,
    files_to_keep,
    files_to_delete,   \* a list (sequence)
    response,          \* raw text typed at the prompt, <<>> before the prompt
    prompted,          \* TRUE once input() has returned
    idx,               \* position of the deletion loop in files_to_delete
    deleted_count,
    error_count,
    attempts,          \* os.remove calls made so far, in order: [file, ok]
    script             \* content written to cleanup_script.sh, or NoScript

vars == <<driver, pc, manifest, disk, disk0, walked, all_files, location_files,
          filename_files, file_field_files, protected_files, files_to_keep,
          files_to_delete, response, prompted, idx, deleted_count, error_count,
          attempts, script>>

(***************************************************************************)
(* Bounds                                                                  *)
(***************************************************************************)
MaxFiles == 2      \* files on disk besides input.json
MaxEntries == 2    \* reference entries handed to the planner
MaxDepth == 1      \* wrappers around a JSON node

(***************************************************************************)
(* Strings                                                                 *)
(***************************************************************************)
Range(s) == {s[k] : k \in 1..Len(s)}

StartsWith(s, p) == Len(s) >= Len(p) /\ SubSeq(s, 1, Len(p)) = p

DropFirst(s, n) == SubSeq(s, n + 1, Len(s))

IsSpace(c) == c \in {" ", "\t", "\n", "\r"}

RECURSIVE LStrip(_)
LStrip(s) == IF s # <<>> /\ IsSpace(Head(s)) THEN LStrip(Tail(s)) ELSE s

RECURSIVE RStrip(_)
RStrip(s) ==
    IF s # <<>> /\ IsSpace(s[Len(s)]) THEN RStrip(SubSeq(s, 1, Len(s) - 1)) ELSE s

\* str.strip()
Strip(s) == RStrip(LStrip(s))

UpperCase == <<"A", "B", "C", "D", "E", "F", "G", "H", "I", "J", "K", "L", "M",
               "N", "O", "P", "Q", "R", "S", "T", "U", "V", "W", "X", "Y", "Z">>
LowerCase == <<"a", "b", "c", "d", "e", "f", "g", "h", "i", "j", "k", "l", "m",
               "n", "o", "p", "q", "r", "s", "t", "u", "v", "w", "x", "y", "z">>

LowerChar(c) ==
    IF c \in Range(UpperCase)
    THEN LowerCase[CHOOSE k \in 1..Len(UpperCase) : UpperCase[k] = c]
    ELSE c

\* str.lower()
Lower(s) == [k \in 1..Len(s) |-> LowerChar(s[k])]

\* Code-point order of the characters that occur in file names of the model.
CodeOrder == <<"\t", "\n", "\r", " ", "'", ".", "/">> \o UpperCase \o <<"_">> \o LowerCase

Ord(c) == CHOOSE k \in 1..Len(CodeOrder) : CodeOrder[k] = c

\* str.__lt__: lexicographic by code point
RECURSIVE StrLess(_, _)
StrLess(a, b) ==
    IF b = <<>> THEN FALSE
    ELSE IF a = <<>> THEN TRUE
    ELSE IF Head(a) = Head(b) THEN StrLess(Tail(a), Tail(b))
    ELSE Ord(Head(a)) < Ord(Head(b))

\* sorted(S) for a collection of distinct strings
RECURSIVE Sorted(_)
Sorted(S) ==
    IF S = {} THEN <<>>
    ELSE LET m == CHOOSE x \in S : \A y \in S \ {x} : StrLess(x, y)
         IN <<m>> \o Sorted(S \ {m})

(***************************************************************************)
(* pathlib.Path (PurePosixPath parsing)                                    *)
(***************************************************************************)
SLASH == <<"/">>
DOT == <<".">>

HasSlash(s) == \E k \in 1..Len(s) : s[k] = "/"

FirstSlash(s) == CHOOSE k \in 1..Len(s) : s[k] = "/" /\ \A j \in 1..(k - 1) : s[j] # "/"

\* s.split('/')
RECURSIVE SplitSep(_)
SplitSep(s) ==
    IF ~HasSlash(s) THEN <<s>>
    ELSE <<SubSeq(s, 1, FirstSlash(s) - 1)>> \o SplitSep(DropFirst(s, FirstSlash(s)))

KeptSegment(x) == x # <<>> /\ x # DOT

\* posixpath.splitroot: exactly two leading slashes are kept, otherwise one
RootOf(s) ==
    IF StartsWith(s, <<"/", "/">>) /\ ~StartsWith(s, <<"/", "/", "/">>) THEN <<"/", "/">>
    ELSE IF StartsWith(s, SLASH) THEN SLASH
    ELSE <<>>

\* Path(s): the root and the segments, empty and '.' segments dropped
Path(s) == [root |-> RootOf(s), parts |-> SelectSeq(SplitSep(s), KeptSegment)]

RECURSIVE JoinSep(_)
JoinSep(parts) ==
    IF parts = <<>> THEN <<>>
    ELSE IF Len(parts) = 1 THEN parts[1]
    ELSE parts[1] \o SLASH \o JoinSep(Tail(parts))

\* str(path)
PathStr(p) == IF p.root = <<>> /\ p.parts = <<>> THEN DOT ELSE p.root \o JoinSep(p.parts)

\* path.name
PathName(p) == IF p.parts = <<>> THEN <<>> ELSE p.parts[Len(p.parts)]

\* normalize_path(file_path)
normalize_path(file_path) ==
    Path(IF StartsWith(file_path, <<".", "/">>) THEN DropFirst(file_path, 2) ELSE file_path)

(***************************************************************************)
(* String literals of the two scripts                                      *)
(***************************************************************************)
S_location == <<"l", "o", "c", "a", "t", "i", "o", "n">>
S_filename == <<"f", "i", "l", "e", "n", "a", "m", "e">>
S_input_json == <<"i", "n", "p", "u", "t", ".", "j", "s", "o", "n">>
S_cleanup_files_py == <<"c", "l", "e", "a", "n", "u", "p", "_", "f", "i", "l", "e", "s", ".", "p", "y">>
S_generate_cleanup_script_py == <<"g", "e", "n", "e", "r", "a", "t", "e", "_", "c", "l", "e", "a", "n", "u", "p", "_", "s", "c", "r", "i", "p", "t", ".", "p", "y">>
S_cleanup_script_sh == <<"c", "l", "e", "a", "n", "u", "p", "_", "s", "c", "r", "i", "p", "t", ".", "s", "h">>
S_poc_json == <<"p", "o", "c", ".", "j", "s", "o", "n">>
S_git == <<".", "g", "i", "t">>
S_gitignore == <<".", "g", "i", "t", "i", "g", "n", "o", "r", "e">>
S_README_md == <<"R", "E", "A", "D", "M", "E", ".", "m", "d">>
S_pom_xml == <<"p", "o", "m", ".", "x", "m", "l">>
S_mvnw == <<"m", "v", "n", "w">>
S_mvnw_cmd == <<"m", "v", "n", "w", ".", "c", "m", "d">>
S_git_slash == <<".", "g", "i", "t", "/">>
S_yes == <<"y", "e", "s">>
S_y == <<"y">>

(***************************************************************************)
(* Manifest scanner: cleanup_files.extract_location_files                  *)
(***************************************************************************)
Str(s) == [t |-> "str", s |-> s]
Num == [t |-> "num"]
Arr(e) == [t |-> "arr", e |-> e]
Obj(m) == [t |-> "obj", m |-> m]

EmptyRefs == [loc |-> {}, fn |-> {}, ff |-> {}]

MergeRefs(R) ==
    [loc |-> UNION {r.loc : r \in R}, fn |-> UNION {r.fn : r \in R},
     ff |-> UNION {r.ff : r \in R}]

HasField(obj, f) == f \in DOMAIN obj.m

\* obj.get("key") == name
KeyIs(obj, name) ==
    HasField(obj, "key") /\ obj.m["key"].t = "str" /\ obj.m["key"].s = name

\* isinstance(v, str) and v.strip()
NonBlankStr(v) == v.t = "str" /\ Strip(v.s) # <<>>

\* NodeRefs with the file field read only when the node is no key/value record
NodeRefsFileElif(obj) ==
    LET isLoc == KeyIs(obj, S_location) /\ HasField(obj, "value")
        isFn == ~isLoc /\ KeyIs(obj, S_filename) /\ HasField(obj, "value")
    IN [loc |-> IF isLoc /\ NonBlankStr(obj.m["value"]) THEN {obj.m["value"].s} ELSE {},
        fn |-> IF isFn /\ NonBlankStr(obj.m["value"]) THEN {obj.m["value"].s} ELSE {},
        ff |-> IF ~isLoc /\ ~isFn /\ HasField(obj, "file") /\ NonBlankStr(obj.m["file"])
               THEN {obj.m["file"].s} ELSE {}]

\* what one dict node adds to the three sets
NodeRefs(obj) ==
    LET isLoc == KeyIs(obj, S_location) /\ HasField(obj, "value")
        isFn == ~isLoc /\ KeyIs(obj, S_filename) /\ HasField(obj, "value")
    IN [loc |-> IF isLoc /\ NonBlankStr(obj.m["value"]) THEN {obj.m["value"].s} ELSE {},
        fn |-> IF isFn /\ NonBlankStr(obj.m["value"]) THEN {obj.m["value"].s} ELSE {},
        ff |-> IF HasField(obj, "file") /\ NonBlankStr(obj.m["file"])
               THEN {obj.m["file"].s} ELSE {}]

RECURSIVE traverse_json(_)
traverse_json(obj) ==
    IF obj.t = "obj"
    THEN MergeRefs({NodeRefs(obj)} \cup {traverse_json(obj.m[f]) : f \in DOMAIN obj.m})
    ELSE IF obj.t = "arr"
    THEN MergeRefs({traverse_json(obj.e[k]) : k \in 1..Len(obj.e)})
    ELSE EmptyRefs

\* the three sets returned for a manifest that was read; an empty triple after
\* FileNotFoundError or JSONDecodeError
extract_location_files(m) ==
    IF m.status = "ok" THEN traverse_json(m.data) ELSE EmptyRefs

(***************************************************************************)
(* Manifest scanner: generate_cleanup_script.extract_location_files        *)
(***************************************************************************)
RECURSIVE gen_traverse_json(_)
gen_traverse_json(obj) ==
    IF obj.t = "obj"
    THEN (IF KeyIs(obj, S_location) /\ HasField(obj, "value") /\ NonBlankStr(obj.m["value"])
          THEN {obj.m["value"].s} ELSE {})
         \cup UNION {gen_traverse_json(obj.m[f]) : f \in DOMAIN obj.m}
    ELSE IF obj.t = "arr"
    THEN UNION {gen_traverse_json(obj.e[k]) : k \in 1..Len(obj.e)}
    ELSE {}

gen_extract_location_files(m) ==
    IF m.status = "ok" THEN gen_traverse_json(m.data) ELSE {}

(***************************************************************************)
(* Protected files                                                         *)
(***************************************************************************)
get_protected_files ==
    {S_input_json, S_cleanup_files_py, S_poc_json, S_git, S_gitignore, S_README_md,
     S_pom_xml, S_mvnw, S_mvnw_cmd}

gen_get_protected_files ==
    {S_input_json, S_cleanup_files_py, S_generate_cleanup_script_py, S_cleanup_script_sh,
     S_poc_json, S_git, S_gitignore, S_README_md, S_pom_xml, S_mvnw, S_mvnw_cmd}

(***************************************************************************)
(* Retention planner: cleanup_files.find_files_to_delete                   *)
(***************************************************************************)
\* str(normalized path) and, when non-empty, its name, for every entry
NormalizedPaths(entries) ==
    UNION {{PathStr(normalize_path(x))} \cup
           (IF PathName(normalize_path(x)) # <<>> THEN {PathName(normalize_path(x))} ELSE {})
           : x \in entries}

NormalizedFilenames(filenames) == {Strip(x) : x \in {y \in filenames : Strip(y) # <<>>}}

\* KeepPool without the protected names
KeepPoolNoProtected(loc, fn, ff, prot) ==
    NormalizedPaths(loc) \cup NormalizedFilenames(fn) \cup NormalizedPaths(ff)

KeepPool(loc, fn, ff, prot) ==
    prot \cup NormalizedPaths(loc) \cup NormalizedFilenames(fn) \cup NormalizedPaths(ff)

\* KeepMatch without the .git/ test
KeepMatchNoGit(file_path, keep_file) ==
    \/ PathStr(Path(file_path)) = PathStr(Path(keep_file))
    \/ PathName(Path(file_path)) = PathName(Path(keep_file))
    \/ PathName(Path(file_path)) = keep_file

\* KeepMatch with full-path equality only
KeepMatchExactOnly(file_path, keep_file) ==
    \/ PathStr(Path(file_path)) = PathStr(Path(keep_file))
    \/ StartsWith(PathStr(Path(file_path)), S_git_slash)

\* one pass of the inner loop body for file_path against keep_file
KeepMatch(file_path, keep_file) ==
    \/ PathStr(Path(file_path)) = PathStr(Path(keep_file))
    \/ PathName(Path(file_path)) = PathName(Path(keep_file))
    \/ PathName(Path(file_path)) = keep_file
    \/ StartsWith(PathStr(Path(file_path)), S_git_slash)

\* the inner loop: breaks with should_keep = True at the first matching entry
should_keep(file_path, pool) == \E keep_file \in pool : KeepMatch(file_path, keep_file)

\* DeleteSet with the test on should_keep inverted
DeleteSetInverted(files, pool) == {f \in files : should_keep(f, pool)}

DeleteSet(files, pool) == {f \in files : ~should_keep(f, pool)}

(***************************************************************************)
(* Retention planner: generate_cleanup_script.find_files_to_delete         *)
(***************************************************************************)
GenKeepPool(loc, prot) == prot \cup NormalizedPaths(loc)

GenKeepMatch(file_path, keep_file) ==
    \/ PathStr(Path(file_path)) = PathStr(Path(keep_file))
    \/ PathName(Path(file_path)) = PathName(Path(keep_file))
    \/ StartsWith(PathStr(Path(file_path)), S_git_slash)

gen_should_keep(file_path, pool) == \E keep_file \in pool : GenKeepMatch(file_path, keep_file)

GenDeleteSet(files, pool) == {f \in files : ~gen_should_keep(f, pool)}

\* the orders in which iterating a set can have appended its members to a list
Orderings(S) ==
    {q \in [1..Cardinality(S) -> S] : \A a, b \in 1..Cardinality(S) : a # b => q[a] # q[b]}

(***************************************************************************)
(* Script generator: generate_shell_script                                 *)
(***************************************************************************)
\* file_path.replace("'", "'\"'\"'")
RECURSIVE EscapeQuotes(_)
EscapeQuotes(s) ==
    IF s = <<>> THEN <<>>
    ELSE (IF Head(s) = "'" THEN <<"'", "\"", "'", "\"", "'">> ELSE <<Head(s)>>)
         \o EscapeQuotes(Tail(s))

\* QuotedWord without the escaping of quotes
QuotedWordRaw(file_path) == <<"'">> \o file_path \o <<"'">>

\* the shell word '{escaped_path}'
QuotedWord(file_path) == <<"'">> \o EscapeQuotes(file_path) \o <<"'">>

\* one deletion block: if [ -f W ]; then if rm W; then ... fi; else "not found"; fi
RmBlock(file_path) ==
    [test |-> QuotedWord(file_path), rm |-> QuotedWord(file_path), echo |-> file_path]

\* the script: the values $confirm is compared with, and the deletion blocks
\* inside the confirmed branch, in sorted order
generate_shell_script(to_delete, to_keep) ==
    [nkeep |-> Cardinality(to_keep),
     ndelete |-> Len(to_delete),
     confirm |-> {S_yes, S_y},
     blocks |-> [k \in 1..Len(to_delete) |-> RmBlock(Sorted(Range(to_delete))[k])]]

NoScript == <<>>

(***************************************************************************)
(* Inputs                                                                  *)
(***************************************************************************)
F_keep_me == <<"k", "e", "e", "p", "/", "m", "e", ".", "t", "x", "t">>
F_delete_me == <<"d", "e", "l", "e", "t", "e", "/", "m", "e", ".", "t", "x", "t">>
F_delete_x == <<"d", "e", "l", "e", "t", "e", "/", "x", ".", "t", "x", "t">>
F_notes == <<"n", "o", "t", "e", "s", ".", "t", "x", "t">>
F_git_config == <<".", "g", "i", "t", "/", "c", "o", "n", "f", "i", "g">>
F_quote == <<"i", "t", "'", "s">>
F_report == <<"s", "u", "b", "/", "d", "i", "r", "/", "r", "e", "p", "o", "r", "t", ".", "t", "x", "t">>
F_other_report == <<"o", "t", "h", "e", "r", "/", "r", "e", "p", "o", "r", "t", ".", "t", "x", "t">>

\* files that may be on disk besides input.json
DiskUniverse ==
    {F_keep_me, F_delete_me, F_delete_x, F_notes, F_git_config, F_quote,
     S_generate_cleanup_script_py, S_cleanup_script_sh}

Disks == {d \in SUBSET DiskUniverse : Cardinality(d) <= MaxFiles}

Responses ==
    {S_yes, S_y, <<" ", "Y", "E", "S", " ">>, <<"Y">>, <<"y", "E", "s", "	">>, <<"n", "o">>, <<>>, <<"y", "e", "s", "s">>, <<"n">>, <<"y", " ", "e", " ", "s">>}

NoData == Num

\* manifests the drivers are run on
DriverData ==
    { Obj([items |-> Arr(<<Obj([key |-> Str(S_location), value |-> Str(F_keep_me)])>>)]),
      Obj([items |-> Arr(<<>>)]),
      Arr(<<Obj([key |-> Str(S_filename), value |-> Str(<<" ", "x", ".", "t", "x", "t", " ">>)]),
            Obj([file |-> Str(<<".", "/", "n", "o", "t", "e", "s", ".", "t", "x", "t">>)])>>),
      Obj([key |-> Str(S_location), value |-> Str(F_notes), file |-> Str(F_delete_x)]),
      Obj([key |-> Str(<<"l", "o", "c", "a", "t", "i", "o", "n", "X">>), value |-> Str(F_keep_me)]),
      Obj([key |-> Str(S_location), value |-> Str(<<"g", "o", "n", "e", "/", "m", "i", "s", "s", "i", "n", "g", ".", "t", "x", "t">>)]),
      Obj([key |-> Str(S_filename), value |-> Str(<<"m", "e", ".", "t", "x", "t">>)]) }

DriverManifests ==
    {[status |-> "ok", data |-> d] : d \in DriverData}
    \cup {[status |-> s, data |-> NoData] : s \in {"missing", "invalid", "unreadable"}}

\* the tree a manifest can be found in: input.json is there unless it is missing
TreesOf(m) ==
    {d \cup (IF m.status = "missing" THEN {} ELSE {S_input_json}) : d \in Disks}

(***************************************************************************)
(* The drivers                                                             *)
(***************************************************************************)
InitLocals ==
    /\ walked = FALSE
    /\ all_files = {}
    /\ files_to_keep = {}
    /\ files_to_delete = <<>>
    /\ response = <<>>
    /\ prompted = FALSE
    /\ idx = 0
    /\ deleted_count = 0
    /\ error_count = 0
    /\ attempts = <<>>
    /\ script = NoScript

Init ==
    /\ driver \in {"cleanup", "generate"}
    /\ pc = "start"
    /\ manifest \in DriverManifests
    /\ disk \in TreesOf(manifest)
    /\ disk0 = disk
    /\ location_files = {}
    /\ filename_files = {}
    /\ file_field_files = {}
    /\ protected_files = {}
    /\ InitLocals

\* cleanup_files.main, line 171: the scan.  An exception other than
\* FileNotFoundError and JSONDecodeError is not caught and ends main.
CleanupExtract ==
    /\ driver = "cleanup" /\ pc = "start"
    /\ IF manifest.status = "unreadable"
       THEN /\ pc' = "crashed"
            /\ UNCHANGED <<location_files, filename_files, file_field_files>>
       ELSE /\ pc' = "scanned"
            /\ location_files' = extract_location_files(manifest).loc
            /\ filename_files' = extract_location_files(manifest).fn
            /\ file_field_files' = extract_location_files(manifest).ff
    /\ UNCHANGED <<driver, manifest, disk, disk0, walked, all_files, protected_files,
                   files_to_keep, files_to_delete, response, prompted, idx,
                   deleted_count, error_count, attempts, script>>

\* generate_cleanup_script.main, line 196
GenExtract ==
    /\ driver = "generate" /\ pc = "start"
    /\ IF manifest.status = "unreadable"
       THEN /\ pc' = "crashed"
            /\ UNCHANGED location_files
       ELSE /\ pc' = "scanned"
            /\ location_files' = gen_extract_location_files(manifest)
    /\ UNCHANGED <<driver, manifest, disk, disk0, walked, all_files, filename_files,
                   file_field_files, protected_files, files_to_keep, files_to_delete,
                   response, prompted, idx, deleted_count, error_count, attempts, script>>

\* cleanup_files.main, lines 173-194
CleanupCheck ==
    /\ driver = "cleanup" /\ pc = "scanned"
    /\ IF location_files = {} /\ filename_files = {} /\ file_field_files = {}
       THEN pc' = "aborted" /\ UNCHANGED protected_files
       ELSE pc' = "plan" /\ protected_files' = get_protected_files
    /\ UNCHANGED <<driver, manifest, disk, disk0, walked, all_files, location_files,
                   filename_files, file_field_files, files_to_keep, files_to_delete,
                   response, prompted, idx, deleted_count, error_count, attempts, script>>

\* generate_cleanup_script.main, lines 198-211
GenCheck ==
    /\ driver = "generate" /\ pc = "scanned"
    /\ IF location_files = {}
       THEN pc' = "aborted" /\ UNCHANGED protected_files
       ELSE pc' = "plan" /\ protected_files' = gen_get_protected_files
    /\ UNCHANGED <<driver, manifest, disk, disk0, walked, all_files, location_files,
                   filename_files, file_field_files, files_to_keep, files_to_delete,
                   response, prompted, idx, deleted_count, error_count, attempts, script>>

\* cleanup_files.find_files_to_delete and main, lines 197-208
CleanupPlan ==
    /\ driver = "cleanup" /\ pc = "plan"
    /\ walked' = TRUE
    /\ all_files' = disk
    /\ files_to_keep' =
           KeepPool(location_files, filename_files, file_field_files, protected_files)
    /\ files_to_delete' \in Orderings(DeleteSet(disk, files_to_keep'))
    /\ pc' = IF files_to_delete' = <<>> THEN "nothing" ELSE "prompt"
    /\ UNCHANGED <<driver, manifest, disk, disk0, location_files, filename_files,
                   file_field_files, protected_files, response, prompted, idx,
                   deleted_count, error_count, attempts, script>>

\* generate_cleanup_script.find_files_to_delete and main, lines 214-221
GenPlan ==
    /\ driver = "generate" /\ pc = "plan"
    /\ walked' = TRUE
    /\ all_files' = disk
    /\ files_to_keep' = GenKeepPool(location_files, protected_files)
    /\ files_to_delete' \in Orderings(GenDeleteSet(disk, files_to_keep'))
    /\ pc' = IF files_to_delete' = <<>> THEN "nothing" ELSE "write"
    /\ UNCHANGED <<driver, manifest, disk, disk0, location_files, filename_files,
                   file_field_files, protected_files, response, prompted, idx,
                   deleted_count, error_count, attempts, script>>

\* Confirmed for any answer that begins with 'y'
ConfirmedAnyY(r) == StartsWith(Lower(Strip(r)), S_y)

\* response in ['yes', 'y'] after .strip().lower()
Confirmed(r) == Lower(Strip(r)) \in {S_yes, S_y}

\* cleanup_files.main, lines 211-215 and 231-232
Prompt ==
    /\ pc = "prompt"
    /\ \E r \in Responses :
          /\ response' = r
          /\ pc' = IF Confirmed(r) THEN "deleting" ELSE "cancelled"
    /\ prompted' = TRUE
    /\ idx' = 1
    /\ UNCHANGED <<driver, manifest, disk, disk0, walked, all_files, location_files,
                   filename_files, file_field_files, protected_files, files_to_keep,
                   files_to_delete, deleted_count, error_count, attempts, script>>

\* lines 217-221: os.remove succeeds
RemoveOk ==
    /\ pc = "deleting" /\ idx <= Len(files_to_delete)
    /\ disk' = disk \ {files_to_delete[idx]}
    /\ attempts' = Append(attempts, [file |-> files_to_delete[idx], ok |-> TRUE])
    /\ deleted_count' = deleted_count + 1
    /\ idx' = idx + 1
    /\ UNCHANGED <<driver, pc, manifest, disk0, walked, all_files, location_files,
                   filename_files, file_field_files, protected_files, files_to_keep,
                   files_to_delete, response, prompted, error_count, script>>

\* RemoveFail with the exception ending the loop
RemoveFailAborts ==
    /\ pc = "deleting" /\ idx <= Len(files_to_delete)
    /\ attempts' = Append(attempts, [file |-> files_to_delete[idx], ok |-> FALSE])
    /\ error_count' = error_count + 1
    /\ pc' = "done"
    /\ UNCHANGED <<driver, manifest, disk, disk0, walked, all_files, location_files,
                   filename_files, file_field_files, protected_files, files_to_keep,
                   files_to_delete, response, prompted, idx, deleted_count, script>>

\* lines 222-224: os.remove raises, the exception is caught
RemoveFail ==
    /\ pc = "deleting" /\ idx <= Len(files_to_delete)
    /\ attempts' = Append(attempts, [file |-> files_to_delete[idx], ok |-> FALSE])
    /\ error_count' = error_count + 1
    /\ idx' = idx + 1
    /\ UNCHANGED <<driver, pc, manifest, disk, disk0, walked, all_files, location_files,
                   filename_files, file_field_files, protected_files, files_to_keep,
                   files_to_delete, response, prompted, deleted_count, script>>

\* lines 226-229
Summary ==
    /\ pc = "deleting" /\ idx > Len(files_to_delete)
    /\ pc' = "done"
    /\ UNCHANGED <<driver, manifest, disk, disk0, walked, all_files, location_files,
                   filename_files, file_field_files, protected_files, files_to_keep,
                   files_to_delete, response, prompted, idx, deleted_count, error_count,
                   attempts, script>>

\* generate_cleanup_script.main, lines 224-236
WriteScript ==
    /\ pc = "write"
    /\ script' = <<generate_shell_script(files_to_delete, files_to_keep)>>
    /\ disk' = disk \cup {S_cleanup_script_sh}
    /\ pc' = "done"
    /\ UNCHANGED <<driver, manifest, disk0, walked, all_files, location_files,
                   filename_files, file_field_files, protected_files, files_to_keep,
                   files_to_delete, response, prompted, idx, deleted_count, error_count,
                   attempts>>

Next ==
    \/ CleanupExtract
    \/ GenExtract
    \/ CleanupCheck
    \/ GenCheck
    \/ CleanupPlan
    \/ GenPlan
    \/ Prompt
    \/ RemoveOk
    \/ RemoveFail
    \/ Summary
    \/ WriteScript

Spec == Init /\ [][Next]_vars

(***************************************************************************)
(* The planners called on their own, on any arguments                      *)
(***************************************************************************)
\* reference entries, tagged with the set they are passed in
PlanEntries ==
    { [kind |-> "loc", s |-> F_report],
      [kind |-> "loc", s |-> <<".", "/", "k", "e", "e", "p", "/", "m", "e", ".", "t", "x", "t">>],
      [kind |-> "loc", s |-> <<"x", "/", "n", "o", "t", "e", "s", ".", "t", "x", "t", "/">>],
      [kind |-> "ff", s |-> <<".", "/", "o", "t", "h", "e", "r", "/", "r", "e", "p", "o", "r", "t", ".", "t", "x", "t">>],
      [kind |-> "ff", s |-> <<".", "/">>],
      [kind |-> "fn", s |-> <<" ", "n", "o", "t", "e", "s", ".", "t", "x", "t", " ">>],
      [kind |-> "fn", s |-> F_keep_me] }

EntrySets == {e \in SUBSET PlanEntries : Cardinality(e) <= MaxEntries}

OfKind(e, kind) == {x.s : x \in {y \in e : y.kind = kind}}

PlanProtected == {{}, get_protected_files, {F_notes}}

PlanDiskUniverse ==
    {F_report, F_other_report, F_keep_me, F_delete_me, F_notes, F_git_config}

PlanDisks == {d \in SUBSET PlanDiskUniverse : Cardinality(d) <= MaxFiles}

InitPlan ==
    /\ driver \in {"cleanup", "generate"}
    /\ pc = "plan"
    /\ manifest = [status |-> "ok", data |-> NoData]
    /\ disk \in PlanDisks
    /\ disk0 = disk
    /\ \E e \in EntrySets :
          /\ location_files = OfKind(e, "loc")
          /\ filename_files = OfKind(e, "fn")
          /\ file_field_files = OfKind(e, "ff")
    /\ protected_files \in PlanProtected
    /\ InitLocals

NextPlan ==
    \/ CleanupPlan
    \/ GenPlan

SpecPlan == InitPlan /\ [][NextPlan]_vars

(***************************************************************************)
(* The scanners called on their own, on any JSON value                     *)
(***************************************************************************)
Absent == [t |-> "absent"]

P_a_b == <<"a", "/", "b", ".", "t", "x", "t">>
P_c == <<".", "/", "c", ".", "t", "x", "t">>
P_d == <<"d", ".", "t", "x", "t">>
P_e == <<"e", "/", "f", ".", "t", "x", "t">>
P_blank == <<" ", "	">>

ScanKeys == {Absent, Str(S_location), Str(S_filename), Str(<<"l", "o", "c", "a", "t", "i", "o", "n", "X">>), Num}
ScanValues == {Absent, Str(P_a_b), Str(P_blank), Str(<<>>), Num}
ScanFiles == {Absent, Str(P_c), Str(P_blank), Num}

\* the object with the fields key, value and file that are not Absent
AttrObj(k, v, f) ==
    LET pick == [key |-> k, value |-> v, file |-> f]
    IN Obj([x \in {y \in {"key", "value", "file"} : pick[y] # Absent} |-> pick[x]])

ScanAtoms ==
    {AttrObj(k, v, f) : k \in ScanKeys, v \in ScanValues, f \in ScanFiles}
    \cup {Str(P_a_b), Num}

\* a node one level up: in an array, in an object, beside a sibling, as the
\* non-string value of a location record, or under an object with a file field
Wrappers(x) ==
    { Arr(<<x>>),
      Obj([items |-> x]),
      Arr(<<Obj([key |-> Str(S_location), value |-> Str(P_d)]), x>>),
      Obj([key |-> Str(S_location), value |-> x]),
      Obj([file |-> Str(P_e), child |-> x]) }

RECURSIVE JsonValues(_)
JsonValues(d) ==
    IF d = 0 THEN ScanAtoms
    ELSE JsonValues(d - 1) \cup UNION {Wrappers(x) : x \in JsonValues(d - 1)}

ScanManifests ==
    {[status |-> "ok", data |-> d] : d \in JsonValues(MaxDepth)}
    \cup {[status |-> s, data |-> NoData] : s \in {"missing", "invalid", "unreadable"}}

InitScan ==
    /\ driver \in {"cleanup", "generate"}
    /\ pc = "start"
    /\ manifest \in ScanManifests
    /\ disk = IF manifest.status = "missing" THEN {} ELSE {S_input_json}
    /\ disk0 = disk
    /\ location_files = {}
    /\ filename_files = {}
    /\ file_field_files = {}
    /\ protected_files = {}
    /\ InitLocals

NextScan ==
    \/ CleanupExtract
    \/ GenExtract

SpecScan == InitScan /\ [][NextScan]_vars

(***************************************************************************)
(* Vocabulary of the properties                                            *)
(***************************************************************************)
DeleteList == Range(files_to_delete)

NoDuplicates(q) == \A a, b \in 1..Len(q) : a # b => q[a] # q[b]

\* the text after the last '/'
RECURSIVE LastSegment(_)
LastSegment(s) == IF HasSlash(s) THEN LastSegment(DropFirst(s, FirstSlash(s))) ELSE s

\* the per-entry part of the decision rule: full path equality, equal base
\* filenames (pathlib's name), or base filename equal to the raw entry
EntryKeeps(f, k) ==
    \/ f = k
    \/ PathName(Path(f)) = PathName(Path(k))
    \/ PathName(Path(f)) = k

UnderGit(f) == StartsWith(f, S_git_slash)

\* every value of the JSON tree, at every depth
RECURSIVE Nodes(_)
Nodes(v) ==
    {v} \cup
    (IF v.t = "obj" THEN UNION {Nodes(v.m[f]) : f \in DOMAIN v.m}
     ELSE IF v.t = "arr" THEN UNION {Nodes(v.e[k]) : k \in 1..Len(v.e)}
     ELSE {})

Objects(v) == {n \in Nodes(v) : n.t = "obj"}

IsBlank(s) == \A k \in 1..Len(s) : IsSpace(s[k])

\* non-blank string found in field f of object o
GoodString(o, f) == f \in DOMAIN o.m /\ o.m[f].t = "str" /\ ~IsBlank(o.m[f].s)

KeyedValues(v, name) ==
    {o.m["value"].s : o \in {x \in Objects(v) :
        /\ "key" \in DOMAIN x.m /\ x.m["key"] = Str(name) /\ GoodString(x, "value")}}

FileValues(v) == {o.m["file"].s : o \in {x \in Objects(v) : GoodString(x, "file")}}

\* what bash makes of a word built from '...' and "..." parts
RECURSIVE ShellWord(_, _)
ShellWord(w, mode) ==
    IF w = <<>> THEN (IF mode = "plain" THEN <<>> ELSE <<"unterminated">>)
    ELSE IF mode = "plain" /\ Head(w) = "'" THEN ShellWord(Tail(w), "single")
    ELSE IF mode = "plain" /\ Head(w) = "\"" THEN ShellWord(Tail(w), "double")
    ELSE IF mode = "single" /\ Head(w) = "'" THEN ShellWord(Tail(w), "plain")
    ELSE IF mode = "double" /\ Head(w) = "\"" THEN ShellWord(Tail(w), "plain")
    ELSE <<Head(w)>> \o ShellWord(Tail(w), mode)

\* the deletions cleanup_files.main plans for a manifest and a tree
CleanupDeletions(m, tree) ==
    LET r == extract_location_files(m)
    IN IF m.status = "unreadable" \/ (r.loc = {} /\ r.fn = {} /\ r.ff = {}) THEN {}
       ELSE DeleteSet(tree, KeepPool(r.loc, r.fn, r.ff, get_protected_files))

(***************************************************************************)
(* C1                                                                      *)
(***************************************************************************)
\* C1 as stated: the two values the planner returns partition the snapshot:
\* their union is the set of files on disk and they are disjoint.
C1_ReturnedSetsPartitionSnapshot ==
    walked => /\ files_to_keep \cup DeleteList = all_files
              /\ files_to_keep \cap DeleteList = {}

\* C1 amended: files_to_delete is a duplicate-free list of snapshot files and
\* is disjoint from the returned files_to_keep; files_to_keep is the keep pool,
\* which need not be a set of snapshot files nor hold every kept file.
C1_DeleteListWithinSnapshot ==
    walked => /\ DeleteList \subseteq all_files
              /\ NoDuplicates(files_to_delete)
              /\ files_to_keep \cap DeleteList = {}

C1_Witness ==
    /\ walked
    /\ files_to_delete # <<>>
    /\ files_to_keep \ all_files # {}
    /\ all_files \ (files_to_keep \cup DeleteList) # {}

ProtectedNames(d) == IF d = "cleanup" THEN get_protected_files ELSE gen_get_protected_files

C4_ManifestErrorAborts ==
    (driver = "cleanup" /\ manifest.status # "ok" /\ pc # "start") =>
        /\ pc \in {"scanned", "aborted"}
        /\ location_files = {} /\ filename_files = {} /\ file_field_files = {}
        /\ ~walked /\ ~prompted
        /\ attempts = <<>> /\ disk = disk0

(***************************************************************************)
(* C5                                                                      *)
(***************************************************************************)
\* C5: in the interactive deleter nothing is removed before the prompt has
\* been answered, removal is attempted only after an answer that is 'yes' or
\* 'y' once trimmed and lower-cased, and any other answer ends the run as
\* cancelled with the tree unchanged.
C5_NoRemovalWithoutYes ==
    driver = "cleanup" =>
        /\ (attempts # <<>> \/ disk # disk0 \/ pc = "deleting") =>
               (prompted /\ Lower(Strip(response)) \in {S_yes, S_y})
        /\ (prompted /\ Lower(Strip(response)) \notin {S_yes, S_y}) =>
               (pc = "cancelled" /\ attempts = <<>> /\ disk = disk0)
        /\ pc = "cancelled" => (prompted /\ files_to_delete # <<>>)

C5_Witness ==
    /\ driver = "cleanup"
    /\ pc = "cancelled"
    /\ response = <<"n", "o">>
    /\ Cardinality(DeleteList) >= 2
    /\ disk = disk0

(***************************************************************************)
(* C6                                                                      *)
(***************************************************************************)
\* C6: at the summary of a confirmed run, os.remove has been called exactly
\* once for every file of the delete list and for nothing else, the two
\* counters add up to the length of the list, the files whose removal
\* succeeded are gone and all other files are still there.
C6_EveryFileAttemptedOnce ==
    (driver = "cleanup" /\ pc = "done") =>
        /\ Len(attempts) = Len(files_to_delete)
        /\ \A f \in DeleteList : Cardinality({k \in 1..Len(attempts) : attempts[k].file = f}) = 1
        /\ \A k \in 1..Len(attempts) : attempts[k].file \in DeleteList
        /\ deleted_count + error_count = Len(files_to_delete)
        /\ deleted_count = Cardinality({k \in 1..Len(attempts) : attempts[k].ok})
        /\ disk = disk0 \ {attempts[k].file : k \in {j \in 1..Len(attempts) : attempts[j].ok}}

C6_Witness ==
    /\ driver = "cleanup"
    /\ pc = "done"
    /\ Len(attempts) >= 2
    /\ ~attempts[1].ok
    /\ attempts[2].ok
    /\ attempts[1].file \in disk
    /\ attempts[2].file \notin disk

(***************************************************************************)
(* C7                                                                      *)
(***************************************************************************)
\* C7: the files the script generator slates for rm are the files the
\* interactive deleter would delete for the same manifest and the same tree.
C7_GeneratorDeletesSameFiles ==
    (driver = "generate" /\ pc \in {"aborted", "nothing", "write", "done"}) =>
        DeleteList = CleanupDeletions(manifest, disk0)

(***************************************************************************)
(* C8                                                                      *)
(***************************************************************************)
\* C8: for a manifest that parsed, the scan returns exactly: the non-blank
\* string values of the objects whose key is "location", the same for
\* "filename", and the non-blank string file fields, of all objects at all
\* depths, the file field whether or not the object is a key/value record.
C8_ScanReturnsReferenceSets ==
    (driver = "cleanup" /\ pc = "scanned" /\ manifest.status = "ok") =>
        /\ location_files = KeyedValues(manifest.data, S_location)
        /\ filename_files = KeyedValues(manifest.data, S_filename)
        /\ file_field_files = FileValues(manifest.data)

C8_Witness ==
    /\ driver = "cleanup"
    /\ pc = "scanned"
    /\ manifest.status = "ok"
    /\ manifest.data.t = "arr"
    /\ \E o \in Objects(manifest.data) :
          /\ "key" \in DOMAIN o.m /\ o.m["key"] = Str(S_location \o <<"X">>)
          /\ "value" \in DOMAIN o.m /\ o.m["value"] = Str(P_a_b)
    /\ location_files = {P_d}
    /\ file_field_files = {P_c}
    /\ filename_files = {}

(***************************************************************************)
(* C9                                                                      *)
(***************************************************************************)
\* C9: a run of the script generator removes nothing; the tree changes at
\* most by cleanup_script.sh, written only when the delete list is not empty,
\* and the script holds, behind a yes/y confirmation, one rm per file of the
\* delete list, each guarded by an existence test of the same file.
C9_GeneratorOnlyWritesScript ==
    driver = "generate" =>
        /\ disk0 \subseteq disk
        /\ disk \ disk0 \subseteq {S_cleanup_script_sh}
        /\ attempts = <<>>
        /\ script = NoScript => disk = disk0
        /\ script # NoScript =>
              /\ files_to_delete # <<>>
              /\ S_cleanup_script_sh \in disk
              /\ script[1].confirm = {S_yes, S_y}
              /\ Len(script[1].blocks) = Len(files_to_delete)
              /\ {ShellWord(script[1].blocks[k].rm, "plain") : k \in 1..Len(script[1].blocks)}
                     = DeleteList
              /\ \A k \in 1..Len(script[1].blocks) :
                     ShellWord(script[1].blocks[k].test, "plain")
                         = ShellWord(script[1].blocks[k].rm, "plain")

C9_Witness ==
    /\ driver = "generate"
    /\ pc = "done"
    /\ script # NoScript
    /\ S_cleanup_script_sh \notin disk0
    /\ F_quote \in DeleteList
    /\ Cardinality(DeleteList) >= 2

(***************************************************************************)
(* C10                                                                     *)
(***************************************************************************)
\* C10: a disk file whose base filename is the base filename of a location
\* entry (for the interactive deleter also of a file-field entry) is kept,
\* in whatever directory it lies; with location keep/me.txt and the files
\* keep/me.txt and delete/me.txt on disk the delete list is empty.
C10_BasenameFallback ==
    walked =>
        /\ \A p \in location_files \cup (IF driver = "cleanup" THEN file_field_files ELSE {}) :
              \A f \in all_files :
                  (LastSegment(p) # <<>> /\ LastSegment(f) = LastSegment(p)) => f \notin DeleteList
        /\ (/\ \E p \in location_files : LastSegment(p) = LastSegment(F_keep_me)
            /\ all_files \subseteq {F_keep_me, F_delete_me}) => files_to_delete = <<>>

C10_Witness ==
    /\ walked
    /\ driver = "cleanup"
    /\ location_files = {F_report}
    /\ filename_files = {}
    /\ file_field_files = {}
    /\ all_files = {F_report, F_other_report}
    /\ protected_files = get_protected_files
    /\ files_to_delete = <<>>

====
